---- MODULE Spec2Model ----
(***************************************************************************)
(* A model of the task lifecycle engine of the AI Employee vault:          *)
(*   scripts/mcp_executor.py      the Executor and its approval gate       *)
(*   scripts/request_approval.py  the synchronous Approval Gate            *)
(*   scripts/task_planner.py      the Ingestor and its Registry            *)
(*   AI_Employee_Vault/task_scheduler.py  the priority Scheduler           *)
(*   scripts/run_ai_employee.py   the orchestrator and its lock file       *)
(* Folders are functions from file names to file contents; a handler is    *)
(* one action, a polling or listing loop is one action per iteration.      *)
(* Where a property speaks of the states inside a handler, the handler is  *)
(* also given split at its file operations (WriteCopy and RemoveSource,    *)
(* PlannerStep and PlannerMark).                                           *)
(***************************************************************************)
EXTENDS Integers, Sequences, FiniteSets, TLC

VARIABLES
    actions,        \* AI_Employee_Vault/Actions: name -> record
    needsApproval,  \* AI_Employee_Vault/Needs_Approval: name -> record
    done,           \* AI_Employee_Vault/Done: name -> record
    force,          \* MCPExecutor.force
    dry_run,        \* MCPExecutor.dry_run
    run,            \* position of the executor's main(): pc, files still to visit
    lastExec,       \* the execute_action call of the executor's latest step
    lastOp,         \* the process_action_file call of the executor's latest step
    now,            \* the wall clock, in seconds
    gate,           \* the request_approval call: its arguments, position and result
    inbox,          \* AI_Employee_Vault/Inbox: name -> what the file holds
    needsAction,    \* AI_Employee_Vault/Needs_Action: name -> record
    registryFile,   \* logs/processed.json
    planner,        \* the task_planner.main of each caller: position, its
                    \* registry dict, files to visit
    generated,      \* how often process_file has written the plan of each file
    task_queue,     \* TaskScheduler.task_queue: the entries of the PriorityQueue
    stamp,          \* the time.time() values schedule_tasks has used so far
    arrived,        \* how many records have been put into Needs_Action
    dispatched,     \* what execute_next_task has moved, in order
    moving,         \* the record the scheduler has copied and not yet removed
    lockFile,       \* logs/ai_employee.lock
    inst,           \* the AIEmployeeScheduler processes: where each one is
    sources,        \* the names of two files put into the Inbox
    derivedNames,   \* the file names derived from them so far, and by whom
    runResults,     \* how two runs of the executor's main() went
    exited          \* the exit status each of them has ended with

vars == <<actions, needsApproval, done, force, dry_run, run, lastExec, lastOp,
          now, gate, inbox, needsAction, registryFile, planner, generated,
          task_queue, stamp, arrived, dispatched, moving, lockFile, inst,
          sources, derivedNames, runResults, exited>>

\* what each component leaves alone
gateVars == <<now, gate>>
executorVars == <<actions, force, dry_run, run, lastExec, lastOp>>
plannerVars == <<inbox, registryFile, planner, generated>>
schedulerVars == <<task_queue, stamp, arrived, dispatched, moving>>
lockVars == <<lockFile, inst>>
nameVars == <<sources, derivedNames>>
exitVars == <<runResults, exited>>
folders == <<needsAction, needsApproval, done>>
notExecutor == <<gateVars, plannerVars, needsAction, schedulerVars, lockVars, nameVars, exitVars>>
notGate == <<executorVars, plannerVars, needsAction, schedulerVars, lockVars, nameVars, exitVars>>
notPlanner == <<executorVars, gateVars, needsApproval, done, schedulerVars, lockVars, nameVars, exitVars>>
notScheduler == <<executorVars, gateVars, plannerVars, lockVars, nameVars, exitVars>>
notLock == <<executorVars, gateVars, plannerVars, schedulerVars, folders, nameVars, exitVars>>
notNames == <<executorVars, gateVars, plannerVars, schedulerVars, folders, lockVars,
             exitVars>>
notExit == <<executorVars, gateVars, plannerVars, schedulerVars, folders, lockVars,
            nameVars>>

\* ------------------------------------------------------------------ bounds
\* the clock stops here
MaxTime == 5
\* the longest timeout and poll interval a caller passes
MaxTimeout == 3
MaxPoll == 2
\* how many times request_approval is called
MaxCalls == 2
\* how many AIEmployeeScheduler processes are started
NumInstances == 3
\* the count of the plans written for one file stops here
MaxGenerated == 2

\* the longest file name, in pieces
MaxNameLen == 3
\* the counters of process_all_actions stop here
MaxCounted == 2
\* how many records arrive while the scheduler is watched for progress
MaxFairArrivals == 3

\* ------------------------------------------------------- program constants
MAX_RETRIES == 3
RETRY_DELAY_BASE == 1

\* ------------------------------------------------------------ small helpers
None == "None"

NoFiles == [x \in {} |-> None]

Range(s) == {s[i] : i \in 1..Len(s)}

Perms(S) == {s \in [1..Cardinality(S) -> S] : Range(s) = S}

Without(f, n) == [x \in (DOMAIN f) \ {n} |-> f[x]]

With(f, n, c) == [x \in (DOMAIN f) \cup {n} |-> IF x = n THEN c ELSE f[x]]

Pow2(n) == IF n <= 0 THEN 1 ELSE 2 ^ n

\* str.lower() on the header values the model uses
Lower(s) ==
    CASE s = "True" -> "true"
      [] s = "Yes" -> "yes"
      [] s = "False" -> "false"
      [] s = "Approved" -> "approved"
      [] s = "APPROVED" -> "approved"
      [] s = "Timeout" -> "timeout"
      [] s = "Network" -> "network"
      [] OTHER -> s

\* the file names the model uses
ActionNames == {"a1.md", "a2.md"}

InboxNames == {"n1.md", "n2.md", "notes.txt"}

PlanNames == {"Plan_n1.md", "Plan_n2.md"}

\* the records that arrive in Needs_Action, in the order they arrive
TaskNames == <<"t1.md", "t2.md", "t3.md", "t4.md">>

RequestIds == <<"approval_0", "approval_1", "approval_2", "approval_3",
                "approval_4", "approval_5", "approval_6", "approval_7">>

RequestFiles == <<"approval_0.md", "approval_1.md", "approval_2.md",
                  "approval_3.md", "approval_4.md", "approval_5.md",
                  "approval_6.md", "approval_7.md">>

\* str.endswith('.md') on these names
EndsWithMd(n) == n \in ActionNames \cup PlanNames \cup Range(RequestFiles)
                        \cup Range(TaskNames)
                        \cup (InboxNames \ {"notes.txt"})

\* ------------------------------------------------------------ header block
\* A header is the sequence of its "key: value" lines.
Line(k, v) == [k |-> k, v |-> v]

HasKey(hdr, key) == \E i \in 1..Len(hdr) : hdr[i].k = key

LastIndex(hdr, key) ==
    CHOOSE i \in 1..Len(hdr) :
        hdr[i].k = key /\ \A j \in (i + 1)..Len(hdr) : hdr[j].k # key

\* dict.get(key, default) on the dict the parser builds: a later line with the
\* same key overwrites an earlier one
Get(hdr, key, default) ==
    IF HasKey(hdr, key) THEN hdr[LastIndex(hdr, key)].v ELSE default

\* int(text): the integer, or ValueError
IntOf(s) ==
    CASE s = "0" -> [ok |-> TRUE, val |-> 0]
      [] s = "1" -> [ok |-> TRUE, val |-> 1]
      [] s = "2" -> [ok |-> TRUE, val |-> 2]
      [] s = "3" -> [ok |-> TRUE, val |-> 3]
      [] s = "-1" -> [ok |-> TRUE, val |-> 0 - 1]
      [] OTHER -> [ok |-> FALSE, val |-> 0]

\* ------------------------------------------------- action records (inputs)
\* A record file: its first line and its header lines.  The body is opaque
\* to the engine.
Record(open, hdr) == [open |-> open, hdr |-> hdr]

\* The records the operator drops: a base record (approval required by
\* default, supported type, default retries) and the records that differ from
\* it in the opening line or in one header line.
BaseHeader == <<Line("type", "action"), Line("status", "pending"),
                Line("action_type", "email")>>

ActionRecords ==
    {Record(o, BaseHeader) : o \in {"---", "----", "# note"}}
    \cup {Record("---", BaseHeader \o <<Line("requires_approval", r)>>) :
            r \in {"True", "false", "on"}}
    \cup {Record("---", BaseHeader \o <<Line("max_retries", m)>>) :
            m \in {"1", "-1", "abc"}}
    \cup {Record("---", <<Line("type", "action"), Line("status", "pending"),
                          Line("action_type", "fax")>>)}

\* The first file takes any of these records; a second file, there to make the
\* listing loops visit more than one record, takes the base record.
Droppable(n) ==
    IF n = "a1.md" THEN ActionRecords ELSE {Record("---", BaseHeader)}

\* ------------------------------------------------ capability outcomes
\* An error message is the sequence of its words; `in` on the lower-cased text
\* is membership of the lower-cased keyword among the words.
ErrNetwork == <<"Email", "sending", "failed:", "Network", "is", "unreachable">>
ErrMissing == <<"Missing", "required", "fields:", "to", "or", "subject">>
ErrUnknownType == <<"Unknown", "action", "type">>

Contains(msg, kw) == \E i \in 1..Len(msg) : Lower(msg[i]) = kw

\* None and the empty string are both false in `if error_message`
NoError == <<>>

\* sent: the capability was invoked (SMTP session, LinkedIn subprocess, HTTP
\* request) before the function returned
Ok(sent) == [success |-> TRUE, error |-> NoError, sent |-> sent]
Fail(msg, sent) == [success |-> FALSE, error |-> msg, sent |-> sent]

\* what execute_email_action / execute_linkedin_action / execute_webhook_action
\* can return: in a dry run only the validation of the record can fail, and
\* the function returns before the capability is invoked
Outcomes_sending(dry) ==
    {Ok(TRUE), Fail(ErrNetwork, TRUE), Fail(ErrMissing, FALSE)}

Outcomes(dry) ==
    IF dry THEN {Ok(FALSE), Fail(ErrMissing, FALSE)}
    ELSE {Ok(TRUE), Fail(ErrNetwork, TRUE), Fail(ErrMissing, FALSE)}

SupportedTypes == {"email", "linkedin", "webhook"}

\* ---------------------------------------------------------- mcp_executor.py
\* parse_action_file: the header dict, or None without a frontmatter
parse_action_file(c) ==
    IF c.open \in {"---", "----"}
    THEN [ok |-> TRUE, metadata |-> c.hdr]
    ELSE [ok |-> FALSE, metadata |-> <<>>]

\* a gate that never asks for approval
requires_approval_never(md) == FALSE

\* a gate that asks for approval whatever the header says
requires_approval_always(md) == TRUE

requires_approval(md) ==
    IF force THEN FALSE
    ELSE Lower(Get(md, "requires_approval", "true")) \in {"true", "yes", "1"}

is_approved(md) ==
    \/ Lower(Get(md, "status", "pending")) = "approved"
    \/ Lower(Get(md, "approved", "false")) \in {"true", "yes", "1"}

\* a retry test that retries every failure
IsRetryable_any(error_message) == error_message # NoError

\* the retry test of execute_action
IsRetryable(error_message) ==
    /\ error_message # NoError
    /\ Contains(error_message, "timeout") \/ Contains(error_message, "network")

\* a loop that runs once more
AttemptRange_one_more(max_retries) == 0..(max_retries + 1)

\* range(max_retries + 1)
AttemptRange(max_retries) == 0..max_retries

\* a backoff that grows by the base each time
Delay_linear(attempt) == RETRY_DELAY_BASE * attempt

\* the sleep before attempt number `attempt` (0-based)
Delay(attempt) == RETRY_DELAY_BASE * Pow2(attempt - 1)

\* The for loop of execute_action from iteration `attempt` on: the set of ways
\* it can end, one for each sequence of capability results.  acc collects the
\* capability calls and the sleeps made so far.
RECURSIVE RetryLoop(_, _, _, _)
RetryLoop(attempt, max_retries, action_type, acc) ==
    IF attempt \notin AttemptRange(max_retries)
    THEN {[acc EXCEPT !.how = IF attempt = 0 THEN "unbound" ELSE "exhausted"]}
    ELSE
        LET slept == IF attempt > 0
                     THEN [acc EXCEPT !.sleeps = Append(@, Delay(attempt))]
                     ELSE acc
        IN  IF action_type \notin SupportedTypes
            THEN {[slept EXCEPT !.how = "break", !.error = ErrUnknownType]}
            ELSE UNION {
                LET called == [slept EXCEPT !.attempts = @ + 1, !.error = out.error,
                                            !.results = Append(@, out)]
                IN  IF out.success THEN {[called EXCEPT !.how = "success"]}
                    ELSE IF IsRetryable(out.error)
                    THEN RetryLoop(attempt + 1, max_retries, action_type, called)
                    ELSE {[called EXCEPT !.how = "break"]}
                : out \in Outcomes(dry_run)}

\* execute_action up to its move_to_done call: "raised" when int() rejects the
\* header value or the loop body never ran (error_message unbound at line 534)
Executions(md) ==
    LET given == HasKey(md, "max_retries")
        parsed == IF given THEN IntOf(Get(md, "max_retries", None))
                  ELSE [ok |-> TRUE, val |-> MAX_RETRIES]
        start == [attempts |-> 0, sleeps |-> <<>>, results |-> <<>>,
                  error |-> NoError, how |-> "start"]
    IN  IF ~parsed.ok THEN {[start EXCEPT !.how = "raised"]}
        ELSE {IF r.how = "unbound" THEN [r EXCEPT !.how = "raised"] ELSE r :
                r \in RetryLoop(0, parsed.val, Get(md, "action_type", "unknown"), start)}

\* move_to_done's rewrite of the file: inside a frontmatter opened by a line
\* that is exactly ---, every status line is replaced and status, completed_at
\* and a non-empty error_message are added before the closing line
Restatus(hdr, status) ==
    [i \in 1..Len(hdr) |-> IF hdr[i].k = "status" THEN Line("status", status) ELSE hdr[i]]

DoneCopy(c, status, error_message) ==
    IF c.open = "---"
    THEN [c EXCEPT !.hdr = Restatus(c.hdr, status)
                            \o <<Line("status", status), Line("completed_at", "now")>>
                            \o (IF error_message # NoError
                                THEN <<Line("error_message", error_message)>>
                                ELSE <<>>)]
    ELSE c

\* how the file operations of a move can end
MoveOutcomes == {"ok", "write_failed", "remove_failed"}
RenameOutcomes == {"ok", "failed"}

Idle == [pc |-> "idle", todo |-> <<>>]

NoExec == [file |-> None, ret |-> "none", how |-> "none", attempts |-> 0,
           sleeps |-> <<>>, results |-> <<>>, error |-> NoError, move |-> "none",
           max_retries |-> None, action_type |-> None]

NoOp == [op |-> "none", file |-> None, ret |-> FALSE]

MdFiles(folder) == {n \in DOMAIN folder : EndsWithMd(n)}

\* execute_action on record c of file n, read from folder src: what it leaves
\* in src and in Done, and what it reports.  e is the way the retry loop ends,
\* mv how move_to_done's file operations end; execute_action ignores
\* move_to_done's return value.
execute_action(src, n, c, e, mv) ==
    LET md == parse_action_file(c).metadata
        ok == e.how = "success"
        copy == DoneCopy(c, IF ok THEN "completed" ELSE "failed",
                         IF ok THEN NoError ELSE e.error)
        moved == ~dry_run /\ e.how # "raised"
        wrote == moved /\ mv \in {"ok", "remove_failed"}
        removed == moved /\ mv = "ok"
        ret == IF e.how = "raised" THEN "raised" ELSE IF ok THEN "True" ELSE "False"
    IN  [src |-> IF removed THEN Without(src, n) ELSE src,
         done |-> IF wrote THEN With(done, n, copy) ELSE done,
         ret |-> ret,
         exec |-> [file |-> n, ret |-> ret, how |-> e.how, attempts |-> e.attempts,
                   sleeps |-> e.sleeps, results |-> e.results, error |-> e.error,
                   move |-> IF moved THEN mv ELSE "none",
                   max_retries |-> Get(md, "max_retries", None),
                   action_type |-> Get(md, "action_type", "unknown")]]

\* move_to_approval: os.rename into Needs_Approval (nothing in a dry run)
move_to_approval(n, c, rn) ==
    IF dry_run THEN [actions |-> actions, approval |-> needsApproval, ret |-> TRUE]
    ELSE IF rn = "ok"
    THEN [actions |-> Without(actions, n), approval |-> With(needsApproval, n, c),
          ret |-> TRUE]
    ELSE [actions |-> actions, approval |-> needsApproval, ret |-> FALSE]

\* process_action_file on Actions/n; every exception ends in `return False`
process_action_file(n) ==
    LET returns(r) == lastOp' = [op |-> "process_action_file", file |-> n, ret |-> r]
    IN  IF n \notin DOMAIN actions \/ ~parse_action_file(actions[n]).ok
        THEN /\ returns(FALSE)
             /\ lastExec' = NoExec
             /\ UNCHANGED <<actions, needsApproval, done>>
        ELSE
            LET c == actions[n]
                md == parse_action_file(c).metadata
            IN  IF requires_approval(md) /\ ~is_approved(md)
                THEN \E rn \in RenameOutcomes :
                        LET m == move_to_approval(n, c, rn)
                        IN  /\ actions' = m.actions
                            /\ needsApproval' = m.approval
                            /\ returns(m.ret)
                            /\ lastExec' = NoExec
                            /\ UNCHANGED done
                ELSE \E e \in Executions(md), mv \in MoveOutcomes :
                        LET x == execute_action(actions, n, c, e, mv)
                        IN  /\ actions' = x.src
                            /\ done' = x.done
                            /\ lastExec' = x.exec
                            /\ returns(x.ret = "True")
                            /\ UNCHANGED needsApproval

\* main(): build the executor, then --file or process_all_actions
MainFile(n, f, d) ==
    /\ UNCHANGED notExecutor
    /\ run.pc = "idle"
    /\ force' = f /\ dry_run' = d
    /\ run' = [pc |-> "file", todo |-> <<n>>]
    /\ lastExec' = NoExec /\ lastOp' = NoOp
    /\ UNCHANGED <<actions, needsApproval, done>>

MainAll(f, d) ==
    /\ UNCHANGED notExecutor
    /\ run.pc = "idle"
    /\ force' = f /\ dry_run' = d
    /\ \E order \in Perms(MdFiles(actions)) : run' = [pc |-> "actions", todo |-> order]
    /\ lastExec' = NoExec /\ lastOp' = NoOp
    /\ UNCHANGED <<actions, needsApproval, done>>

\* the process ends: its executor object is gone
Exit == /\ run' = Idle /\ force' = FALSE /\ dry_run' = FALSE

StepFile ==
    /\ UNCHANGED notExecutor
    /\ run.pc = "file"
    /\ process_action_file(run.todo[1])
    /\ Exit

\* one iteration of the loop over Actions
StepActions ==
    /\ UNCHANGED notExecutor
    /\ run.pc = "actions" /\ run.todo # <<>>
    /\ process_action_file(Head(run.todo))
    /\ run' = [run EXCEPT !.todo = Tail(@)]
    /\ UNCHANGED <<force, dry_run>>

\* os.listdir(NEEDS_APPROVAL_FOLDER) once the first loop is over
ListApproval ==
    /\ UNCHANGED notExecutor
    /\ run.pc = "actions" /\ run.todo = <<>>
    /\ \E order \in Perms(MdFiles(needsApproval)) :
            run' = [pc |-> "approval", todo |-> order]
    /\ lastExec' = NoExec /\ lastOp' = NoOp
    /\ UNCHANGED <<actions, needsApproval, done, force, dry_run>>

\* one iteration of the loop over Needs_Approval: only approved records run,
\* and an exception of execute_action ends process_all_actions and the process
StepApproval ==
    /\ UNCHANGED notExecutor
    /\ run.pc = "approval" /\ run.todo # <<>>
    /\ lastOp' = NoOp
    /\ UNCHANGED actions
    /\ LET n == Head(run.todo)
       IN  IF /\ n \in DOMAIN needsApproval
              /\ parse_action_file(needsApproval[n]).ok
              /\ is_approved(parse_action_file(needsApproval[n]).metadata)
           THEN \E e \in Executions(needsApproval[n].hdr), mv \in MoveOutcomes :
                    LET x == execute_action(needsApproval, n, needsApproval[n], e, mv)
                    IN  /\ needsApproval' = x.src
                        /\ done' = x.done
                        /\ lastExec' = x.exec
                        /\ IF x.ret = "raised" THEN Exit
                           ELSE /\ run' = [run EXCEPT !.todo = Tail(@)]
                                /\ UNCHANGED <<force, dry_run>>
           ELSE /\ run' = [run EXCEPT !.todo = Tail(@)]
                /\ lastExec' = NoExec
                /\ UNCHANGED <<needsApproval, done, force, dry_run>>

FinishAll ==
    /\ UNCHANGED notExecutor
    /\ run.pc = "approval" /\ run.todo = <<>>
    /\ Exit
    /\ lastExec' = NoExec /\ lastOp' = NoOp
    /\ UNCHANGED <<actions, needsApproval, done>>

\* ------------------------------------------------ the operator and the human
\* a new action file appears in Actions
DropAction(n, c) ==
    /\ UNCHANGED notExecutor
    /\ c \in Droppable(n)
    /\ n \notin DOMAIN actions \cup DOMAIN needsApproval \cup DOMAIN done
    /\ actions' = With(actions, n, c)
    /\ UNCHANGED <<needsApproval, done, force, dry_run, run, lastExec, lastOp>>

\* the reviewer writes the decision into the header of a waiting record
HumanDecides(n, line) ==
    /\ UNCHANGED notExecutor
    /\ n \in DOMAIN needsApproval
    /\ ~is_approved(needsApproval[n].hdr)
    /\ Get(needsApproval[n].hdr, "status", "pending") # "rejected"
    /\ needsApproval' =
          [needsApproval EXCEPT ![n].hdr =
              IF line.k = "status" /\ HasKey(@, "status")
              THEN Restatus(@, line.v) ELSE Append(@, line)]
    /\ UNCHANGED <<actions, done, force, dry_run, run, lastExec, lastOp>>

Decisions == {Line("status", "approved"), Line("approved", "Yes"),
              Line("status", "rejected")}

InitExecutor ==
    /\ actions = NoFiles /\ needsApproval = NoFiles /\ done = NoFiles
    /\ force = FALSE /\ dry_run = FALSE
    /\ run = Idle
    /\ lastExec = NoExec /\ lastOp = NoOp

NextExecutor ==
    \/ \E n \in ActionNames, f \in BOOLEAN, d \in BOOLEAN : MainFile(n, f, d)
    \/ \E f \in BOOLEAN, d \in BOOLEAN : MainAll(f, d)
    \/ StepFile
    \/ StepActions
    \/ ListApproval
    \/ StepApproval
    \/ FinishAll
    \/ \E n \in ActionNames, c \in ActionRecords : DropAction(n, c)
    \/ \E n \in ActionNames, l \in Decisions : HumanDecides(n, l)

\* ------------------------------------------------------ request_approval.py
\* generate_request_id: approval_<timestamp>, one id per second of the clock
generate_request_id == RequestIds[now + 1]

\* {request_id}.md
RequestFile(request_id) ==
    IF \E i \in 1..Len(RequestIds) : RequestIds[i] = request_id
    THEN RequestFiles[CHOOSE i \in 1..Len(RequestIds) : RequestIds[i] = request_id]
    ELSE ".md"

\* str.upper() on what the model writes after "**YOUR DECISION**:"
Upper(text) ==
    CASE text = " approved" -> " APPROVED"
      [] text = " rejected" -> " REJECTED"
      [] text = " ok" -> " OK"
      [] OTHER -> text

\* what a human may leave after "**YOUR DECISION**:" (the file is created with
\* nothing there)
SlotTexts == {" APPROVED", " approved", " REJECTED", "APPROVED", " ok"}

\* what a requester may pass as title, description and details: a plain
\* sentence, and texts that quote the decision line of an earlier request
RequestTexts == {"deploy the release",
                 "as before (your decision**: approved)",
                 "last time: decision**: rejected"}

\* the decision a text spells out after "DECISION**:" once it is upper-cased
DecisionIn(text) ==
    CASE text = "as before (your decision**: approved)" -> "APPROVED"
      [] text = "last time: decision**: rejected" -> "REJECTED"
      [] OTHER -> "none"

\* the file create_approval_request writes: the requester's text goes into
\* the body as it is, above the decision section.  edited tells whether the
\* latest edit of the decision line was made before the timeout of the call
\* that waits for the file had elapsed ("early") or not
RequestRecord(request_id, t, timeout_seconds, text) ==
    [open |-> "---",
     hdr |-> <<Line("request_id", request_id), Line("status", "PENDING"),
               Line("created_at", t), Line("timeout_at", t + timeout_seconds)>>,
     text |-> text,
     slot |-> "", edited |-> "never"]

\* the substring test of check_approval_status on the upper-cased content of
\* the whole file: "DECISION**: APPROVED" is there when the slot starts with
\* " APPROVED" or when the requester's text holds it
ContentStatus(c) ==
    IF Upper(c.slot) = " APPROVED" \/ DecisionIn(c.text) = "APPROVED" THEN "APPROVED"
    ELSE IF Upper(c.slot) = " REJECTED" \/ DecisionIn(c.text) = "REJECTED"
    THEN "REJECTED"
    ELSE "PENDING"

\* check_approval_status: the file in Needs_Approval, else the one in Done
check_approval_status(request_id) ==
    LET f == RequestFile(request_id)
    IN  IF f \in DOMAIN needsApproval THEN ContentStatus(needsApproval[f])
        ELSE IF f \in DOMAIN done THEN ContentStatus(done[f])
        ELSE "None"

\* move_to_done's rewrite: the status line replaced, reviewed_at (and the
\* notes) added before the closing line
ReviewedCopy(c, final_status, reviewer_notes) ==
    [c EXCEPT !.hdr = Restatus(c.hdr, final_status)
                        \o <<Line("reviewed_at", now)>>
                        \o (IF reviewer_notes # None
                            THEN <<Line("reviewer_notes", reviewer_notes)>>
                            ELSE <<>>)]

\* move_to_done: nothing when the file is not in Needs_Approval
move_to_done(request_id, final_status, reviewer_notes) ==
    LET f == RequestFile(request_id)
    IN  IF f \notin DOMAIN needsApproval
        THEN [approval |-> needsApproval, done |-> done, moved |-> 0]
        ELSE [approval |-> Without(needsApproval, f),
              done |-> With(done, f, ReviewedCopy(needsApproval[f], final_status,
                                                  reviewer_notes)),
              moved |-> 1]

\* a loop iteration that checks the status when the time is up anyway
TimedOut_late(elapsed, timeout_seconds) == elapsed > timeout_seconds

\* the timeout test of wait_for_approval
TimedOut(elapsed, timeout_seconds) == elapsed >= timeout_seconds

\* an iteration that looks at the decision before it looks at the clock
Verdict_decision_first(elapsed, timeout_seconds, status) ==
    IF status = "APPROVED" THEN "True"
    ELSE IF status = "REJECTED" THEN "False"
    ELSE IF TimedOut(elapsed, timeout_seconds) THEN "ApprovalTimeout"
    ELSE IF status = "None" THEN "False"
    ELSE "sleep"

\* one iteration of wait_for_approval's loop: how it ends
Verdict(elapsed, timeout_seconds, status) ==
    IF TimedOut(elapsed, timeout_seconds) THEN "ApprovalTimeout"
    ELSE IF status = "APPROVED" THEN "True"
    ELSE IF status = "REJECTED" THEN "False"
    ELSE IF status = "None" THEN "False"
    ELSE "sleep"

\* a resolution that leaves the request where it is
FinalStatus_none(verdict, status) == "none"

\* the status an iteration passes to move_to_done ("none": no call)
FinalStatus(verdict, status) ==
    IF verdict = "ApprovalTimeout" THEN "TIMEOUT"
    ELSE IF verdict \in {"True", "False"} /\ status # "None" THEN status
    ELSE "none"

NoCall == [pc |-> "idle", request_id |-> None, timeout |-> 0, poll |-> 1,
           start |-> 0, wake |-> 0, result |-> "none", read |-> "none",
           elapsed |-> 0, moves |-> 0, calls |-> 0, shutdown |-> FALSE]

\* request_approval: create_approval_request, then wait_for_approval begins
RequestApproval(timeout_seconds, poll_interval, text) ==
    /\ gate.pc # "polling" /\ gate.calls < MaxCalls
    /\ LET id == generate_request_id
       IN  /\ needsApproval' = With(needsApproval, RequestFile(id),
                                    RequestRecord(id, now, timeout_seconds, text))
           /\ gate' = [pc |-> "polling", request_id |-> id,
                       timeout |-> timeout_seconds, poll |-> poll_interval,
                       start |-> now, wake |-> now, result |-> "none",
                       read |-> "none", elapsed |-> 0, moves |-> 0,
                       calls |-> gate.calls + 1, shutdown |-> gate.shutdown]
    /\ UNCHANGED <<done, now>>
    /\ UNCHANGED notGate

\* one iteration of the loop of wait_for_approval, up to its sleep
Poll ==
    /\ gate.pc = "polling" /\ now = gate.wake
    /\ LET elapsed == now - gate.start
           status == check_approval_status(gate.request_id)
           verdict == Verdict(elapsed, gate.timeout, status)
           final == FinalStatus(verdict, status)
           m == IF final = "none"
                THEN [approval |-> needsApproval, done |-> done, moved |-> 0]
                ELSE move_to_done(gate.request_id, final,
                                  IF final = "TIMEOUT" THEN "Request timed out"
                                  ELSE None)
       IN  /\ needsApproval' = m.approval
           /\ done' = m.done
           /\ gate' = IF verdict = "sleep"
                      THEN [gate EXCEPT !.wake = now + gate.poll, !.read = status,
                                        !.elapsed = elapsed]
                      ELSE [gate EXCEPT !.pc = "returned", !.result = verdict,
                                        !.read = status, !.elapsed = elapsed,
                                        !.moves = @ + m.moved]
    /\ UNCHANGED now
    /\ UNCHANGED notGate

\* a second goes by; a poll that is due is made first
Tick ==
    /\ now < MaxTime
    /\ gate.pc = "polling" => now < gate.wake
    /\ now' = now + 1
    /\ UNCHANGED <<needsApproval, done, gate>>
    /\ UNCHANGED notGate

\* the reviewer edits the decision line of a waiting request in place
HumanWrites(f, text) ==
    /\ f \in DOMAIN needsApproval
    /\ needsApproval[f].slot # text
    /\ needsApproval' =
          [needsApproval EXCEPT ![f].slot = text,
                                ![f].edited =
                                    IF /\ gate.pc = "polling"
                                       /\ RequestFile(gate.request_id) = f
                                       /\ now - gate.start < gate.timeout
                                    THEN "early" ELSE "late"]
    /\ UNCHANGED <<done, now, gate>>
    /\ UNCHANGED notGate

\* a termination signal reaches the process that is inside wait_for_approval.
\* What it does depends on the handler the process has installed: one that
\* sets a shutdown flag (as signal_handler of run_ai_employee.py does) returns
\* into the loop, which reads no such flag; the default handler of SIGINT
\* raises KeyboardInterrupt out of the sleep
ShutdownSignal(handler) ==
    /\ gate.pc = "polling" /\ ~gate.shutdown
    /\ gate' = IF handler = "flag"
               THEN [gate EXCEPT !.shutdown = TRUE]
               ELSE [gate EXCEPT !.shutdown = TRUE, !.pc = "returned",
                                 !.result = "KeyboardInterrupt"]
    /\ UNCHANGED <<needsApproval, done, now>>
    /\ UNCHANGED notGate

\* the request file is taken out of Needs_Approval by someone else than the
\* gate (deleted, or filed away by the reviewer): check_approval_status then
\* finds it in neither folder
RequestFileRemoved(f) ==
    /\ f \in DOMAIN needsApproval
    /\ needsApproval' = Without(needsApproval, f)
    /\ UNCHANGED <<done, now, gate>>
    /\ UNCHANGED notGate

InitGate == now = 0 /\ gate = NoCall

NextGate ==
    \/ \E t \in 0..MaxTimeout, p \in 1..MaxPoll, text \in RequestTexts :
            RequestApproval(t, p, text)
    \/ Poll
    \/ Tick
    \/ \E f \in Range(RequestFiles), text \in SlotTexts : HumanWrites(f, text)

\* the Approval Gate with request files that can disappear (requests with
\* a text that holds no decision marker)
NextGateLoss ==
    \/ \E t \in 0..MaxTimeout, p \in 1..MaxPoll :
            RequestApproval(t, p, "deploy the release")
    \/ Poll
    \/ Tick
    \/ \E f \in Range(RequestFiles), text \in SlotTexts : HumanWrites(f, text)
    \/ \E f \in Range(RequestFiles) : RequestFileRemoved(f)

\* the Approval Gate in a process that can be told to shut down (requests
\* with a text that holds no decision marker)
NextGateShutdown ==
    \/ \E t \in 0..MaxTimeout, p \in 1..MaxPoll :
            RequestApproval(t, p, "deploy the release")
    \/ Poll
    \/ Tick
    \/ \E f \in Range(RequestFiles), text \in SlotTexts : HumanWrites(f, text)
    \/ \E handler \in {"flag", "default"} : ShutdownSignal(handler)

\* ----------------------------------------------------------- task_planner.py
\* what an Inbox file holds: whether open/read succeeds on it, and its text
InboxFiles == [readable : BOOLEAN, text : {"plain", "asap"}]

\* extract_priority on the texts of the model
extract_priority(text) ==
    CASE text = "asap" -> "high"
      [] text = "whenever" -> "low"
      [] OTHER -> "medium"

\* f"Plan_{filename.replace('.md', '')}.md"
PlanName(filename) ==
    CASE filename = "n1.md" -> "Plan_n1.md"
      [] filename = "n2.md" -> "Plan_n2.md"
      [] OTHER -> "Plan_notes.txt.md"

\* generate_plan: the header of the plan
generate_plan(filename, f) ==
    Record("---", <<Line("type", "action_plan"), Line("status", "pending"),
                    Line("priority", extract_priority(f.text)),
                    Line("created_at", now), Line("source_file", filename)>>)

NoRegistry == [form |-> "missing", entries |-> <<>>]

Entry(filename, processed_at, plan_created) ==
    [filename |-> filename, processed_at |-> processed_at,
     plan_created |-> plan_created]

\* f"Plan_{filename}" of the migration
LegacyPlanName(filename) ==
    CASE filename = "n1.md" -> "Plan_n1.md"
      [] filename = "n2.md" -> "Plan_n2.md"
      [] OTHER -> "Plan_notes.txt"

\* a migration that is not written back
load_processed_registry_unsaved ==
    IF registryFile.form = "legacy"
    THEN [registry |-> [i \in 1..Len(registryFile.entries) |->
                            Entry(registryFile.entries[i].filename,
                                  "unknown (migrated)",
                                  LegacyPlanName(registryFile.entries[i].filename))],
          file |-> registryFile]
    ELSE [registry |-> registryFile.entries, file |-> registryFile]

\* load_processed_registry: the dict it returns and the file it leaves
load_processed_registry ==
    IF registryFile.form = "legacy"
    THEN LET migrated == [i \in 1..Len(registryFile.entries) |->
                            Entry(registryFile.entries[i].filename,
                                  "unknown (migrated)",
                                  LegacyPlanName(registryFile.entries[i].filename))]
         IN  [registry |-> migrated,
              file |-> [form |-> "current", entries |-> migrated]]
    ELSE [registry |-> registryFile.entries, file |-> registryFile]

\* a planner that has forgotten what it processed
is_file_processed_never(filename, registry) == FALSE

is_file_processed(filename, registry) ==
    \E i \in 1..Len(registry) : registry[i].filename = filename

\* mark_file_processed: append, then save_processed_registry
mark_file_processed(filename, plan_filename, registry) ==
    Append(registry, Entry(filename, now, plan_filename))

\* process_file: False when the Inbox file cannot be read
process_file(filename) ==
    filename \in DOMAIN inbox /\ inbox[filename].readable

\* The processes that start task_planner.py as a subprocess: process_cycle of
\* run_ai_employee.py and trigger_task_planner of watch_inbox.py.  Each waits
\* for its subprocess, so each has at most one run going.
Callers == {"run_ai_employee", "watch_inbox"}

Main == "run_ai_employee"

NoPlanner == [pc |-> "idle", registry |-> <<>>, todo |-> <<>>, clean |-> FALSE,
              cleanRuns |-> 0]

\* a run that ends: it was a run over an unchanged Inbox if nothing arrived
Finished(p) ==
    [pc |-> "idle", registry |-> <<>>, todo |-> <<>>, clean |-> FALSE,
     cleanRuns |-> IF p.clean THEN (IF p.cleanRuns = 0 THEN 1 ELSE 2) ELSE 0]

\* main(): load the registry, list the Inbox; return when it holds no .md file
PlannerStart(r) ==
    /\ UNCHANGED notPlanner
    /\ planner[r].pc = "idle"
    /\ registryFile' = load_processed_registry.file
    /\ \E order \in Perms(MdFiles(inbox)) :
          planner' = [planner EXCEPT ![r] =
                        IF order = <<>>
                        THEN Finished([@ EXCEPT !.clean = TRUE])
                        ELSE [@ EXCEPT !.pc = "loop",
                                       !.registry = load_processed_registry.registry,
                                       !.todo = order, !.clean = TRUE]]
    /\ UNCHANGED <<inbox, needsAction, generated>>

\* an iteration that reports success without having written the plan
PlannerStep_unwritten(r) ==
    /\ UNCHANGED notPlanner
    /\ planner[r].pc = "loop" /\ planner[r].todo # <<>>
    /\ LET filename == Head(planner[r].todo)
       IN  IF is_file_processed(filename, planner[r].registry)
              \/ ~process_file(filename)
           THEN planner' = [planner EXCEPT ![r].todo = Tail(@)]
           ELSE planner' = [planner EXCEPT ![r].pc = "mark"]
    /\ UNCHANGED <<inbox, registryFile, needsAction, generated>>

\* one iteration of main()'s loop up to the return of process_file: the file is
\* skipped, or it fails, or its plan is written into Needs_Action
PlannerStep(r) ==
    /\ UNCHANGED notPlanner
    /\ planner[r].pc = "loop" /\ planner[r].todo # <<>>
    /\ LET filename == Head(planner[r].todo)
       IN  IF is_file_processed(filename, planner[r].registry)
              \/ ~process_file(filename)
           THEN /\ planner' = [planner EXCEPT ![r].todo = Tail(@)]
                /\ UNCHANGED <<needsAction, generated>>
           ELSE /\ needsAction' = With(needsAction, PlanName(filename),
                                       generate_plan(filename, inbox[filename]))
                /\ generated' = [generated EXCEPT ![filename] =
                                    IF @ < MaxGenerated THEN @ + 1 ELSE @]
                /\ planner' = [planner EXCEPT ![r].pc = "mark"]
    /\ UNCHANGED <<inbox, registryFile>>

\* the rest of the iteration: mark_file_processed appends the entry to the
\* run's registry dict and save_processed_registry writes the dict out
PlannerMark(r) ==
    /\ UNCHANGED notPlanner
    /\ planner[r].pc = "mark"
    /\ LET filename == Head(planner[r].todo)
           registry == mark_file_processed(filename, PlanName(filename),
                                           planner[r].registry)
       IN  /\ registryFile' = [form |-> "current", entries |-> registry]
           /\ planner' = [planner EXCEPT ![r].pc = "loop", ![r].todo = Tail(@),
                                         ![r].registry = registry]
    /\ UNCHANGED <<inbox, needsAction, generated>>

\* the summary at the end of main()
PlannerFinish(r) ==
    /\ UNCHANGED notPlanner
    /\ planner[r].pc = "loop" /\ planner[r].todo = <<>>
    /\ planner' = [planner EXCEPT ![r] = Finished(@)]
    /\ UNCHANGED <<inbox, needsAction, registryFile, generated>>

\* the subprocess dies (the 60 s / 120 s timeout of its caller, a kill)
\* wherever it is
PlannerCrash(r) ==
    /\ UNCHANGED notPlanner
    /\ planner[r].pc # "idle"
    /\ planner' = [planner EXCEPT ![r] = NoPlanner]
    /\ UNCHANGED <<inbox, needsAction, registryFile, generated>>

\* logs/processed.json is deleted
RegistryLost ==
    /\ UNCHANGED notPlanner
    /\ registryFile # NoRegistry
    /\ registryFile' = NoRegistry
    /\ planner' = [r \in Callers |-> [planner[r] EXCEPT !.clean = FALSE,
                                                        !.cleanRuns = 0]]
    /\ UNCHANGED <<inbox, needsAction, generated>>

\* somebody puts a file into the Inbox
DropInbox(n, f) ==
    /\ UNCHANGED notPlanner
    /\ n \notin DOMAIN inbox
    /\ inbox' = With(inbox, n, f)
    /\ planner' = [r \in Callers |-> [planner[r] EXCEPT !.clean = FALSE,
                                                        !.cleanRuns = 0]]
    /\ UNCHANGED <<needsAction, registryFile, generated>>

\* somebody takes a file out of the Inbox
RemoveInbox(n) ==
    /\ UNCHANGED notPlanner
    /\ n \in DOMAIN inbox
    /\ inbox' = Without(inbox, n)
    /\ planner' = [r \in Callers |-> [planner[r] EXCEPT !.clean = FALSE,
                                                        !.cleanRuns = 0]]
    /\ UNCHANGED <<needsAction, registryFile, generated>>

\* the registries an installation starts with: none, or one in the legacy form
InitialRegistries ==
    {NoRegistry, [form |-> "legacy", entries |-> <<[filename |-> "n2.md"]>>],
     [form |-> "legacy", entries |-> <<[filename |-> "n1.md"],
                                       [filename |-> "n2.md"]>>]}

InitPlanner(registries) ==
    /\ inbox = NoFiles /\ needsAction = NoFiles
    /\ registryFile \in registries
    /\ planner = [r \in Callers |-> NoPlanner]
    /\ generated = [n \in InboxNames |-> 0]

\* the environment of the planner
InboxChanges ==
    \/ \E n \in InboxNames, f \in InboxFiles : DropInbox(n, f)
    \/ \E n \in InboxNames : RemoveInbox(n)

\* the runs of one caller
NextPlanner ==
    \/ PlannerStart(Main)
    \/ PlannerStep(Main)
    \/ PlannerMark(Main)
    \/ PlannerFinish(Main)
    \/ InboxChanges

\* the runs of both callers, which share no lock, while files arrive
NextTwoPlanners ==
    \/ \E r \in Callers : PlannerStart(r)
    \/ \E r \in Callers : PlannerStep(r)
    \/ \E r \in Callers : PlannerMark(r)
    \/ \E r \in Callers : PlannerFinish(r)
    \/ \E n \in InboxNames, f \in InboxFiles : DropInbox(n, f)

\* the runs of one caller where the Registry gets lost
NextRegistryLoss ==
    \/ NextPlanner
    \/ RegistryLost

\* the runs of one caller where runs die and the Registry gets lost
NextPlannerFaults ==
    \/ NextPlanner
    \/ PlannerCrash(Main)
    \/ RegistryLost

\* ------------------------------------------- AI_Employee_Vault/task_scheduler.py
Priorities == {"high", "medium", "low"}

\* TaskScheduler.priority_map, with the default of schedule_tasks
priority_map(priority) ==
    CASE priority = "high" -> 1
      [] priority = "medium" -> 2
      [] priority = "low" -> 3
      [] OTHER -> 2

\* a record as file_watcher.create_task_file and process_file write it
TaskRecord(priority, created_at) ==
    Record("---", <<Line("type", "task"), Line("status", "pending"),
                    Line("priority", priority), Line("created_at", created_at)>>)

\* parse_task_file: the task dict of a record
parse_task_file(filename, c) ==
    IF c.open = "---"
    THEN [filename |-> filename,
          priority |-> Get(c.hdr, "priority", "medium"),
          status |-> Get(c.hdr, "status", "pending"),
          created_at |-> Get(c.hdr, "created_at", "")]
    ELSE [filename |-> filename, priority |-> "medium", status |-> "pending",
          created_at |-> ""]

\* a listing that leaves out every record that needs no approval
load_tasks_from_needs_action_high_only(order) ==
    SelectSeq([i \in 1..Len(order) |-> parse_task_file(order[i], needsAction[order[i]])],
              LAMBDA task : task.priority = "high")

\* load_tasks_from_needs_action, in the order os.listdir gave
load_tasks_from_needs_action(order) ==
    [i \in 1..Len(order) |-> parse_task_file(order[i], needsAction[order[i]])]

\* the time.time() of the i-th put of a pass over n tasks
StampOf(base, i, n) == base + i

\* schedule_tasks: the entries it puts into the queue
schedule_tasks(tasks) ==
    {[rank |-> priority_map(tasks[i].priority),
      timestamp |-> StampOf(stamp, i, Len(tasks)),
      task |-> tasks[i]] : i \in {j \in 1..Len(tasks) : tasks[j].status = "pending"}}

\* the order of the tuples in the PriorityQueue
EntryBefore(a, b) ==
    \/ a.rank < b.rank
    \/ a.rank = b.rank /\ a.timestamp <= b.timestamp

\* PriorityQueue.get
QueueHead(q) == CHOOSE e \in q : \A o \in q : EntryBefore(e, o)

\* '\\n'.join(...) inside the f-string: the header lines end up on one line,
\* which reads back as the first key with the rest as its value
JoinLines(hdr) ==
    IF Len(hdr) <= 1 THEN hdr
    ELSE <<Line(hdr[1].k, "value\\nkey: value")>>

DropKey(hdr, key) == SelectSeq(hdr, LAMBDA l : l.k # key)

\* the file move_to_approval writes into Needs_Approval
ApprovalCopy(c) ==
    IF c.open = "---"
    THEN [c EXCEPT !.hdr = JoinLines(Restatus(c.hdr, "awaiting_approval"))]
    ELSE c

\* the file complete_task writes into Done
CompletedCopy(c) ==
    IF c.open = "---"
    THEN [c EXCEPT !.hdr = JoinLines(Append(Restatus(DropKey(c.hdr, "completed_at"),
                                                     "completed"),
                                            Line("completed_at", now)))]
    ELSE c

\* One pass of the loop of run_scheduler: schedule_tasks, then
\* execute_next_task, whose move_to_approval or complete_task writes the copy
\* into the destination folder and then calls os.remove on the source.
\* With atomic the pass is one step; without it the pass stops after the
\* write, and RemoveSource is the os.remove.
run_scheduler_pass(atomic) ==
    /\ UNCHANGED notScheduler
    /\ UNCHANGED arrived
    /\ moving = None
    /\ \E order \in Perms(MdFiles(needsAction)) :
          LET tasks == load_tasks_from_needs_action(order)
              queue == task_queue \cup schedule_tasks(tasks)
              visible == {[rank |-> priority_map(tasks[i].priority),
                           created_at |-> tasks[i].created_at] :
                             i \in {j \in 1..Len(tasks) : tasks[j].status = "pending"}}
          IN  /\ stamp' = stamp + Len(tasks)
              /\ IF queue = {}
                 THEN UNCHANGED <<task_queue, needsAction, needsApproval, done,
                                  dispatched, moving>>
                 ELSE LET e == QueueHead(queue)
                          f == e.task.filename
                      IN  /\ task_queue' = queue \ {e}
                          /\ IF f \notin DOMAIN needsAction
                             THEN UNCHANGED <<needsAction, needsApproval, done,
                                              dispatched, moving>>
                             ELSE /\ IF atomic
                                     THEN /\ needsAction' = Without(needsAction, f)
                                          /\ UNCHANGED moving
                                     ELSE /\ moving' = f
                                          /\ UNCHANGED needsAction
                                  /\ IF e.task.priority = "high"
                                     THEN /\ needsApproval' =
                                               With(needsApproval, f,
                                                    ApprovalCopy(needsAction[f]))
                                          /\ UNCHANGED done
                                     ELSE /\ done' = With(done, f,
                                                          CompletedCopy(needsAction[f]))
                                          /\ UNCHANGED needsApproval
                                  /\ dispatched' =
                                       Append(dispatched,
                                              [file |-> f, rank |-> e.rank,
                                               created_at |-> e.task.created_at,
                                               visible |-> visible])

\* the pass as one step
Cycle == run_scheduler_pass(TRUE)

\* the pass up to and including the write of the destination file
WriteCopy == run_scheduler_pass(FALSE)

\* os.remove(source_path) of move_to_approval and complete_task
RemoveSource ==
    /\ UNCHANGED notScheduler
    /\ moving # None
    /\ needsAction' = Without(needsAction, moving)
    /\ moving' = None
    /\ UNCHANGED <<needsApproval, done, task_queue, stamp, arrived, dispatched>>

\* a record is put into Needs_Action
Arrive(priority) ==
    /\ UNCHANGED notScheduler
    /\ arrived < Len(TaskNames)
    /\ arrived' = arrived + 1
    /\ needsAction' = With(needsAction, TaskNames[arrived + 1],
                           TaskRecord(priority, arrived + 1))
    /\ UNCHANGED <<needsApproval, done, task_queue, stamp, dispatched, moving>>

InitScheduler ==
    /\ task_queue = {} /\ stamp = 0 /\ arrived = 0 /\ dispatched = <<>>
    /\ moving = None

NextScheduler ==
    \/ Cycle
    \/ \E p \in Priorities : Arrive(p)

\* the scheduler with fewer records arriving
NextSchedulerFew ==
    \/ Cycle
    \/ \E p \in Priorities : arrived < MaxFairArrivals /\ Arrive(p)

\* the scheduler with the two steps of its moves apart
NextSchedulerSteps ==
    \/ WriteCopy
    \/ RemoveSource
    \/ \E p \in Priorities : Arrive(p)

\* ------------------------------------------------- scripts/run_ai_employee.py
\* the processes, named by their pid
Instances == 1..NumInstances

NoLock == [exists |-> FALSE, pid |-> 0]

\* is_process_running: False for no pid, else whether that process is alive
\* the pcs of a process that is not there: not started, returned, killed
NotRunning == {"off", "gone", "killed"}

\* a liveness test that finds no process
is_process_running_never(pid) == FALSE

is_process_running(pid) == pid \in Instances /\ inst[pid].pc \notin NotRunning

At(i, pc) == inst[i].pc = pc

Goto(i, pc) == inst' = [inst EXCEPT ![i].pc = pc]

\* run(): run_once or run_daemon begins
Launch(i, mode) ==
    /\ UNCHANGED notLock
    /\ At(i, "off")
    /\ inst' = [inst EXCEPT ![i] = [pc |-> "exists", mode |-> mode,
                                    shutdown |-> FALSE]]
    /\ UNCHANGED lockFile

\* create_lock_file: os.path.exists(LOCK_FILE)
LockExists(i) ==
    /\ UNCHANGED notLock
    /\ At(i, "exists")
    /\ Goto(i, IF lockFile.exists THEN "read" ELSE "write")
    /\ UNCHANGED lockFile

\* create_lock_file: read the lock and ask whether its process is running;
\* a lock that has vanished in between raises, and the call returns False
LockRead(i) ==
    /\ UNCHANGED notLock
    /\ At(i, "read")
    /\ Goto(i, IF ~lockFile.exists \/ is_process_running(lockFile.pid)
               THEN "gone" ELSE "remove")
    /\ UNCHANGED lockFile

\* create_lock_file: os.remove of the stale lock (raises when it has vanished)
LockRemoveStale(i) ==
    /\ UNCHANGED notLock
    /\ At(i, "remove")
    /\ IF lockFile.exists
       THEN lockFile' = NoLock /\ Goto(i, "write")
       ELSE UNCHANGED lockFile /\ Goto(i, "gone")

\* create_lock_file: write the lock with the own pid and return True
LockWrite(i) ==
    /\ UNCHANGED notLock
    /\ At(i, "write")
    /\ lockFile' = [exists |-> TRUE, pid |-> i]
    /\ Goto(i, "locked")

\* run_once calls process_cycle; run_daemon tests `while not
\* shutdown_requested` and calls process_cycle or leaves the loop
CycleBegin_unchecked(i) ==
    /\ UNCHANGED notLock
    /\ At(i, "locked")
    /\ Goto(i, "cycle")
    /\ UNCHANGED lockFile

CycleBegin(i) ==
    /\ UNCHANGED notLock
    /\ At(i, "locked")
    /\ Goto(i, IF inst[i].mode = "daemon" /\ inst[i].shutdown
               THEN "finally" ELSE "cycle")
    /\ UNCHANGED lockFile

\* process_cycle is over: run_once goes on to its finally block, run_daemon
\* sleeps (not when shutdown_requested) and comes back to the loop test
CycleEnd(i) ==
    /\ UNCHANGED notLock
    /\ At(i, "cycle")
    /\ Goto(i, IF inst[i].mode = "daemon" THEN "locked" ELSE "finally")
    /\ UNCHANGED lockFile

\* remove_lock_file in the finally block: whatever lock is there goes
remove_lock_file(i) ==
    /\ UNCHANGED notLock
    /\ At(i, "finally")
    /\ lockFile' = NoLock
    /\ Goto(i, "gone")

\* signal_handler: SIGINT or SIGTERM sets shutdown_requested
Signal(i) ==
    /\ UNCHANGED notLock
    /\ inst[i].pc \notin NotRunning /\ ~inst[i].shutdown
    /\ inst' = [inst EXCEPT ![i].shutdown = TRUE]
    /\ UNCHANGED lockFile

\* the process is killed: no handler and no finally block runs
Killed(i) ==
    /\ UNCHANGED notLock
    /\ inst[i].pc \notin NotRunning
    /\ Goto(i, "killed")
    /\ UNCHANGED lockFile

InitLock ==
    /\ lockFile = NoLock
    /\ inst = [i \in Instances |-> [pc |-> "off", mode |-> "once",
                                     shutdown |-> FALSE]]

NextLock ==
    \/ \E i \in Instances, mode \in {"once", "daemon"} : Launch(i, mode)
    \/ \E i \in Instances : LockExists(i)
    \/ \E i \in Instances : LockRead(i)
    \/ \E i \in Instances : LockRemoveStale(i)
    \/ \E i \in Instances : LockWrite(i)
    \/ \E i \in Instances : CycleBegin(i)
    \/ \E i \in Instances : CycleEnd(i)
    \/ \E i \in Instances : remove_lock_file(i)
    \/ \E i \in Instances : Signal(i)
    \/ \E i \in Instances : Killed(i)

\* ------------------------------------------------- the derived file names
\* A file name is a sequence of pieces: single characters, and the piece
\* ".md" for that run of three characters (no other piece holds a dot, so
\* ".md" occurs in a name exactly where this piece does).
NamePieces == {"a", "-", ":", ".md"}

FileNames == UNION {[1..k -> NamePieces] : k \in 1..MaxNameLen}

\* filename.replace(":", "-").replace("/", "-").replace("\\", "-")
safe_name(filename) ==
    [i \in 1..Len(filename) |->
        IF filename[i] \in {":", "/", "\\"} THEN "-" ELSE filename[i]]

\* f"task_{safe_name}.md"
task_filename(filename) == <<"task_">> \o safe_name(filename) \o <<".md">>

\* filename.replace('.md', '')
base_name(filename) == SelectSeq(filename, LAMBDA piece : piece # ".md")

\* f"Plan_{base_name}.md"
plan_filename(filename) == <<"Plan_">> \o base_name(filename) \o <<".md">>

\* f.endswith('.md'), the files task_planner.main takes from the Inbox
IsMarkdown(filename) == filename[Len(filename)] = ".md"

\* file_watcher.create_task_file on the i-th file: the task file it writes
create_task_file(i) ==
    /\ UNCHANGED notNames
    /\ derivedNames' = derivedNames \cup
            {[source |-> i, by |-> "file_watcher", name |-> task_filename(sources[i])]}
    /\ derivedNames' # derivedNames
    /\ UNCHANGED sources

\* task_planner.process_file on the i-th file: the plan file it writes
WritePlanFile(i) ==
    /\ UNCHANGED notNames
    /\ IsMarkdown(sources[i])
    /\ derivedNames' = derivedNames \cup
            {[source |-> i, by |-> "task_planner", name |-> plan_filename(sources[i])]}
    /\ derivedNames' # derivedNames
    /\ UNCHANGED sources

InitNames(pairs) == sources \in pairs /\ derivedNames = {}

NextNames ==
    \/ \E i \in 1..2 : create_task_file(i)
    \/ \E i \in 1..2 : WritePlanFile(i)

\* --------------------------------------------- the exit status of the executor
\* How the try block of main() can go: process_all_actions returns its two
\* counters, or an exception leaves it (the counters are then lost).  With
\* --file the one call of process_action_file gives processed + failed = 1.
RunResults ==
    [processed : 0..MaxCounted, failed : 0..MaxCounted,
     raised : {"none", "Exception", "KeyboardInterrupt"}]

\* main(): sys.exit(0 if results["failed"] == 0 else 1), sys.exit(0) on
\* KeyboardInterrupt, sys.exit(1) on any other exception
main_exit_code(r) ==
    IF r.raised = "KeyboardInterrupt" THEN 0
    ELSE IF r.raised = "Exception" THEN 1
    ELSE IF r.failed = 0 THEN 0 ELSE 1

\* the i-th run of main() ends
MainExit(i) ==
    /\ UNCHANGED notExit
    /\ \A x \in exited : x.run # i
    /\ exited' = exited \cup {[run |-> i, code |-> main_exit_code(runResults[i])]}
    /\ UNCHANGED runResults

InitExit(pairs) == runResults \in pairs /\ exited = {}

NextExit == \E i \in 1..2 : MainExit(i)

\* the Ingestor feeding the Scheduler: plans are written into Needs_Action
\* and the scheduler's passes dispatch them; the Registry can get lost as long
\* as no plan has been written MaxGenerated times
NextPipeline ==
    \/ PlannerStart(Main)
    \/ PlannerStep(Main)
    \/ PlannerMark(Main)
    \/ PlannerFinish(Main)
    \/ \E n \in InboxNames, f \in InboxFiles : DropInbox(n, f)
    \/ Cycle
    \/ (\A n \in InboxNames : generated[n] < MaxGenerated) /\ RegistryLost

Init ==
    /\ InitExecutor /\ InitGate /\ InitPlanner({NoRegistry}) /\ InitScheduler
    /\ InitLock /\ InitNames({<<<<"a", ".md">>, <<"a", "-", ".md">>>>})
    /\ InitExit({<<[processed |-> 1, failed |-> 0, raised |-> "none"],
                   [processed |-> 1, failed |-> 0, raised |-> "none"]>>})

InitUpgraded ==
    /\ InitExecutor /\ InitGate /\ InitPlanner(InitialRegistries) /\ InitScheduler
    /\ InitLock /\ InitNames({<<<<"a", ".md">>, <<"a", "-", ".md">>>>})
    /\ InitExit({<<[processed |-> 1, failed |-> 0, raised |-> "none"],
                   [processed |-> 1, failed |-> 0, raised |-> "none"]>>})

\* any two files in the Inbox
InitAnyNames ==
    /\ InitExecutor /\ InitGate /\ InitPlanner({NoRegistry}) /\ InitScheduler
    /\ InitLock /\ InitNames(FileNames \X FileNames)
    /\ InitExit({<<[processed |-> 1, failed |-> 0, raised |-> "none"],
                   [processed |-> 1, failed |-> 0, raised |-> "none"]>>})

\* any two runs of the executor
InitAnyRuns ==
    /\ InitExecutor /\ InitGate /\ InitPlanner({NoRegistry}) /\ InitScheduler
    /\ InitLock /\ InitNames({<<<<"a", ".md">>, <<"a", "-", ".md">>>>})
    /\ InitExit(RunResults \X RunResults)

Next ==
    \/ NextExecutor \/ NextGate \/ NextPlanner \/ NextScheduler \/ NextLock
    \/ NextNames \/ NextExit

Spec == Init /\ [][Next]_vars

SpecExecutor == Init /\ [][NextExecutor]_vars

SpecGate == Init /\ [][NextGate]_vars

SpecGateShutdown == Init /\ [][NextGateShutdown]_vars

SpecGateLoss == Init /\ [][NextGateLoss]_vars

SpecPlanner == InitUpgraded /\ [][NextPlanner]_vars

SpecScheduler == Init /\ [][NextScheduler]_vars

\* run_scheduler keeps running: its loop makes pass after pass, while
\* MaxFairArrivals records arrive
SpecSchedulerFair == Init /\ [][NextSchedulerFew]_vars /\ WF_vars(Cycle)

SpecNames == InitAnyNames /\ [][NextNames]_vars

SpecExit == InitAnyRuns /\ [][NextExit]_vars

SpecLock == Init /\ [][NextLock]_vars

\* an instance that is not killed goes on running: its loop test, its
\* process_cycle and its finally block are eventually executed
SpecLockFair ==
    /\ SpecLock
    /\ \A i \in Instances :
          /\ WF_vars(CycleBegin(i))
          /\ WF_vars(CycleEnd(i))
          /\ WF_vars(remove_lock_file(i))

SpecTwoPlanners == Init /\ [][NextTwoPlanners]_vars

SpecRegistryLoss == Init /\ [][NextRegistryLoss]_vars

SpecPlannerFaults == Init /\ [][NextPlannerFaults]_vars

SpecPipeline == Init /\ [][NextPipeline]_vars

SpecSchedulerSteps == Init /\ [][NextSchedulerSteps]_vars

\* ======================================================================
\* Claims about the Executor (scripts/mcp_executor.py)
\* ======================================================================

\* a record whose header asks for approval (requires_approval true or unset)
\* and carries no approval decision
Gated(c) ==
    /\ parse_action_file(c).ok
    /\ Lower(Get(c.hdr, "requires_approval", "true")) = "true"
    /\ ~is_approved(c.hdr)

GatedIn(folder, n) == n \in DOMAIN folder /\ Gated(folder[n])

\* this step is a process_action_file call on Actions/n
ProcessedNow(n) ==
    /\ run.pc \in {"file", "actions"}
    /\ run.todo # <<>> /\ Head(run.todo) = n
    /\ run' # run

\* this step is an execute_action call on n
ExecutedNow(n) == lastExec' # lastExec /\ lastExec'.file = n

\* outside force mode a gated record is not executed, gets no Done copy and does
\* not leave Needs_Approval
GatedUntouched(n) ==
    (~force /\ (GatedIn(actions, n) \/ GatedIn(needsApproval, n))) =>
        /\ ~ExecutedNow(n)
        /\ (n \in DOMAIN done') = (n \in DOMAIN done)
        /\ n \in DOMAIN done => done'[n] = done[n]
        /\ n \in DOMAIN needsApproval => n \in DOMAIN needsApproval'

\* C1 as stated: outside force mode a gated record is never executed and never
\* placed in Done, after process_action_file it resides in Needs_Approval, and
\* it stays there until a decision is written into it.
C1_GatedRecordWaitsInNeedsApproval ==
    [][\A n \in ActionNames :
          /\ GatedUntouched(n)
          /\ (~force /\ GatedIn(actions, n) /\ ProcessedNow(n))
                => n \in DOMAIN needsApproval']_vars

\* C1 amended: outside force mode a gated record is never executed and never
\* placed in Done; after a process_action_file call that returns True outside a
\* dry run it resides in Needs_Approval and no longer in Actions, and it stays
\* in Needs_Approval until a decision is written into it.  (In a dry run, or
\* when the rename fails, it stays in Actions, still not executed.)
C1_GatedRecordNeverExecuted ==
    [][\A n \in ActionNames :
          /\ GatedUntouched(n)
          /\ (~force /\ GatedIn(actions, n) /\ ProcessedNow(n))
                => IF ~dry_run /\ lastOp'.ret
                   THEN n \in DOMAIN needsApproval' /\ n \notin DOMAIN actions'
                        /\ needsApproval'[n] = actions[n]
                   ELSE n \in DOMAIN actions' /\ actions'[n] = actions[n]]_vars

\* a whole process_all_actions run outside force mode has gone by a gated
\* record that waits in Needs_Approval
C1_Witness ==
    /\ run.pc = "approval" /\ run.todo = <<>> /\ ~force /\ ~dry_run
    /\ \E n \in ActionNames : GatedIn(needsApproval, n)

\* the attempt budget a header asks for (MAX_RETRIES when it has none)
Budget(max_retries) ==
    IF max_retries = None THEN MAX_RETRIES ELSE IntOf(max_retries).val

Returned == lastExec.ret \in {"True", "False"}

\* C5 as stated: execute_action invokes the capability at most max_retries
\* times in total (3 by default).
C5_AtMostMaxRetriesAttempts ==
    Returned => lastExec.attempts <= Budget(lastExec.max_retries)

\* C5 amended: execute_action invokes the capability at most max_retries + 1
\* times in total (4 by default): a first attempt and at most max_retries
\* retries, so after transient failures on attempts 1, 2 and 3 of a default
\* record a 4th attempt is made, and that one is the last.
C5_AtMostMaxRetriesPlusOneAttempts ==
    Returned => lastExec.attempts <= Budget(lastExec.max_retries) + 1

\* a default record was tried 4 times
C5_Witness ==
    /\ Returned /\ lastExec.max_retries = None
    /\ lastExec.attempts = MAX_RETRIES + 1

\* C6: whenever execute_action returns outside a dry run the record is in Done
\* and no longer in its source folder, with status completed and completed_at
\* after True, with status failed and an error_message after False.
C6_ReturnMeansTerminal ==
    (Returned /\ lastExec.move # "none") =>
        LET n == lastExec.file
        IN  /\ n \in DOMAIN done
            /\ n \notin DOMAIN actions \cup DOMAIN needsApproval
            /\ HasKey(done[n].hdr, "completed_at")
            /\ lastExec.ret = "True" => Get(done[n].hdr, "status", None) = "completed"
            /\ lastExec.ret = "False" =>
                    /\ Get(done[n].hdr, "status", None) = "failed"
                    /\ HasKey(done[n].hdr, "error_message")

\* the error text mentions neither "timeout" nor "network"
NonTransient(result) ==
    /\ ~result.success
    /\ ~Contains(result.error, "timeout") /\ ~Contains(result.error, "network")

HumanApproved(c) ==
    \/ c.slot \in {" APPROVED", " approved"}
    \/ c.text = "as before (your decision**: approved)"

GateFile == RequestFile(gate.request_id)

\* C2: request_approval returns True only when the request file carried an
\* approval at a poll made before the timeout had elapsed; a call whose last
\* poll found the timeout elapsed ends in ApprovalTimeout, never in True.
C2_TrueOnlyOnApprovalBeforeTimeout ==
    /\ gate.result = "True" =>
          /\ gate.elapsed < gate.timeout
          /\ GateFile \in DOMAIN done
          /\ HumanApproved(done[GateFile])
    /\ (gate.pc = "returned" /\ gate.elapsed >= gate.timeout) =>
          gate.result = "ApprovalTimeout"

\* an approval found at a later poll, after at least one sleep
C2_Witness ==
    /\ gate.result = "True"
    /\ gate.elapsed > 0

\* C8: a waiting call never polls on past timeout + poll_interval, and when
\* it raises ApprovalTimeout the elapsed time is in [T, T + poll_interval)
\* and the request file is out of Needs_Approval, in Done with status TIMEOUT.
C8_TimeoutWithinOnePollInterval ==
    /\ gate.pc = "polling" => now - gate.start < gate.timeout + gate.poll
    /\ gate.result = "ApprovalTimeout" =>
          /\ gate.elapsed >= gate.timeout
          /\ gate.elapsed < gate.timeout + gate.poll
          /\ GateFile \notin DOMAIN needsApproval
          /\ GateFile \in DOMAIN done
          /\ Get(done[GateFile].hdr, "status", None) = "TIMEOUT"

\* a request nobody decided, timed out at a poll later than T
C8_Witness ==
    /\ gate.result = "ApprovalTimeout"
    /\ gate.elapsed > gate.timeout
    /\ gate.timeout > 0
    /\ GateFile \in DOMAIN done
    /\ done[GateFile].slot = ""

\* the final status that goes with each way a call ends
Resolution(result) ==
    CASE result = "True" -> "APPROVED"
      [] result = "False" -> "REJECTED"
      [] result = "ApprovalTimeout" -> "TIMEOUT"
      [] OTHER -> None

\* C9: while a call waits, its request file is in Needs_Approval and has not
\* been moved; once the call has ended (approved, rejected or timed out) the
\* file has been moved exactly once, is in Done and not in Needs_Approval, and
\* the Done copy carries the final status and the reviewed_at stamp of the move.
C9_ResolutionMovesExactlyOnce ==
    /\ gate.moves <= 1
    /\ gate.pc = "polling" =>
          /\ gate.moves = 0
          /\ GateFile \in DOMAIN needsApproval
    /\ gate.pc = "returned" =>
          /\ gate.moves = 1
          /\ GateFile \notin DOMAIN needsApproval
          /\ GateFile \in DOMAIN done
          /\ Get(done[GateFile].hdr, "status", None) = Resolution(gate.result)
          /\ Get(done[GateFile].hdr, "reviewed_at", None) = gate.start + gate.elapsed

\* a rejected request, resolved after a sleep
C9_Witness ==
    /\ gate.pc = "returned"
    /\ gate.result = "False"
    /\ gate.moves = 1
    /\ gate.elapsed > 0

\* ---------------------------------------------------------------- ingestion
\* the filenames the persisted Registry lists, in order
RegistryNames == [i \in 1..Len(registryFile.entries) |-> registryFile.entries[i].filename]

\* C3: once a run of task_planner.main has gone through an Inbox that has not
\* changed since, no step of a further run changes Needs_Action or the
\* Registry.
C3_SecondRunIsNoOp ==
    [][(planner[Main].cleanRuns >= 1 /\ planner' # planner) =>
          /\ needsAction' = needsAction
          /\ registryFile' = registryFile]_vars

\* two runs over the same Inbox, which holds a processed file and one that
\* cannot be read
C3_Witness ==
    /\ planner[Main].cleanRuns = 2
    /\ \E n \in DOMAIN inbox : inbox[n].readable /\ PlanName(n) \in DOMAIN needsAction
    /\ \E n \in DOMAIN inbox : ~inbox[n].readable
    /\ Len(RegistryNames) >= 1

\* ---------------------------------------------------------------- scheduler
\* rank first, then time of arrival
KeyBefore(a, b) ==
    \/ a.rank < b.rank
    \/ a.rank = b.rank /\ a.created_at <= b.created_at

\* C4: every record the Scheduler dispatches is, among the pending records
\* visible in Needs_Action in that cycle, one of the highest priority and, of
\* those, the one that arrived first.
C4_DispatchByPriorityThenArrival ==
    \A i \in 1..Len(dispatched) :
        \A v \in dispatched[i].visible : KeyBefore(dispatched[i], v)

\* --------------------------------------------------------------- lock file
\* the instances that are past create_lock_file
PastLock == {i \in Instances : inst[i].pc \in {"locked", "cycle", "finally"}}

\* C10: at most one instance is past create_lock_file at any time, so two
\* instances never run processing cycles together.
C10_AtMostOneInstancePastLock == Cardinality(PastLock) <= 1

\* a record whose header opts out of approval
OptsOut(c) ==
    /\ parse_action_file(c).ok
    /\ Get(c.hdr, "requires_approval", None) = "false"

C15_ApprovalRequiredUnlessOptedOut ==
    [][\A n \in ActionNames :
          /\ (/\ ~force
              /\ n \in DOMAIN actions
              /\ parse_action_file(actions[n]).ok
              /\ ~OptsOut(actions[n])
              /\ ~is_approved(actions[n].hdr)
              /\ ProcessedNow(n))
                => lastExec'.file # n
          /\ force => (n \in DOMAIN needsApproval' => n \in DOMAIN needsApproval)]_vars

\* C17: execute_action sleeps only before a retry, never before the first
\* attempt and never after the last one; the sleep before the k-th retry lasts
\* RETRY_DELAY_BASE * 2^(k-1) seconds, so successive sleeps (1 s, 2 s, 4 s)
\* grow strictly, and a call that makes three attempts has slept 1 s and 2 s.
C17_BackoffDoublesBetweenAttempts ==
    LET sleeps == lastExec.sleeps
    IN  /\ Len(sleeps) = IF lastExec.attempts = 0 THEN 0
                         ELSE lastExec.attempts - 1
        /\ \A k \in 1..Len(sleeps) : sleeps[k] = RETRY_DELAY_BASE * 2 ^ (k - 1)
        /\ \A k \in 1..(Len(sleeps) - 1) : sleeps[k] < sleeps[k + 1]
        /\ lastExec.attempts = 3 => sleeps = <<1, 2>>

\* two transient failures and then a third attempt
C17_Witness ==
    /\ lastExec.attempts = 3
    /\ IsRetryable(lastExec.results[1].error)
    /\ IsRetryable(lastExec.results[2].error)
    /\ lastExec.sleeps = <<1, 2>>

\* ======================================================================
\* Claims about the folders as a whole
\* ======================================================================

\* the lifecycle folders a file name is present in
FoldersHolding(n) ==
    {F \in {"Needs_Action", "Needs_Approval", "Done", "Actions"} :
        n \in DOMAIN (CASE F = "Needs_Action" -> needsAction
                         [] F = "Needs_Approval" -> needsApproval
                         [] F = "Done" -> done
                         [] OTHER -> actions)}

AllNames ==
    DOMAIN needsAction \cup DOMAIN needsApproval \cup DOMAIN done
        \cup DOMAIN actions

\* C11: in every reachable state, the states between the write and the remove
\* of a move included, a file name is present in at most one of Needs_Action,
\* Needs_Approval, Done and Actions.
C11_NameInAtMostOneFolder ==
    \A n \in AllNames : Cardinality(FoldersHolding(n)) <= 1

\* C16: a record rewritten by a lifecycle transition of the Scheduler
\* (complete_task, move_to_approval) parses back to a header that has every
\* original key with its value unchanged where the transition does not touch
\* it, and the transition's keys (status, completed_at) as keys of their own.
C16_RewrittenRecordParsesBack ==
    \A i \in 1..Len(dispatched) :
        LET d == dispatched[i]
            toApproval == d.rank = priority_map("high")
            folder == IF toApproval THEN needsApproval ELSE done
        IN  /\ d.file \in DOMAIN folder
            /\ LET t == parse_task_file(d.file, folder[d.file])
                   hdr == folder[d.file].hdr
               IN  /\ HasKey(hdr, "type") /\ HasKey(hdr, "priority")
                   /\ HasKey(hdr, "created_at")
                   /\ t.created_at = d.created_at
                   /\ priority_map(t.priority) = d.rank
                   /\ t.status = IF toApproval THEN "awaiting_approval"
                                 ELSE "completed"
                   /\ toApproval \/ HasKey(hdr, "completed_at")

\* ======================================================================
\* Claims about ingestion under interleaving, crashes and failures
\* ======================================================================

\* how many entries of the persisted Registry name the file
EntriesFor(file, n) ==
    Cardinality({i \in 1..Len(file.entries) : file.entries[i].filename = n})

\* C12: when two runs of task_planner.main interleave, the plan of each Inbox
\* file is still generated at most once, no file is recorded by more than one
\* Registry entry, and no step takes away an entry the Registry holds.
C12_OnePlanOneEntryPerFile ==
    [][/\ \A n \in InboxNames : generated'[n] <= 1
       /\ \A n \in InboxNames : EntriesFor(registryFile', n) <= 1
       /\ \A n \in InboxNames :
              EntriesFor(registryFile, n) <= EntriesFor(registryFile', n)]_vars

\* C13: a plan the Ingestor generated with priority: high (its header has no
\* requires_approval key), once the Scheduler has dispatched it, has not
\* entered Needs_Approval: it is in Done with status completed and a
\* completed_at line.
C13_HighPriorityPlanCompletedDirectly ==
    \A i \in 1..Len(dispatched) :
        LET d == dispatched[i]
        IN  (d.file \in PlanNames /\ d.rank = priority_map("high")) =>
               /\ d.file \notin DOMAIN needsApproval
               /\ d.file \in DOMAIN done
               /\ Get(done[d.file].hdr, "status", None) = "completed"
               /\ HasKey(done[d.file].hdr, "completed_at")

\* C18: the plan is written into Needs_Action before its Registry entry is
\* recorded: in every state, also after a run has died at any step, every
\* entry of the Registry names a plan that has been written.
C18_EntryNamesWrittenPlan ==
    \A i \in 1..Len(registryFile.entries) :
        registryFile.entries[i].plan_created \in DOMAIN needsAction

\* a run has recorded one file and has died between the write of the next
\* plan and its entry
C18_Witness ==
    /\ planner[Main].pc = "idle"
    /\ Len(registryFile.entries) >= 1
    /\ \E n \in DOMAIN inbox :
          /\ inbox[n].readable
          /\ PlanName(n) \in DOMAIN needsAction
          /\ EntriesFor(registryFile, n) = 0

\* this step is process_file writing the plan of Inbox file n
PlanWrittenNow(n) ==
    \E r \in Callers :
        /\ planner[r].pc = "loop" /\ planner'[r].pc = "mark"
        /\ Head(planner[r].todo) = n

\* C19: an Inbox file counts as seen when the Registry lists it or when its
\* plan already exists in Needs_Action: also after the Registry has been lost,
\* ingestion does not derive the plan again and does not overwrite it.
C19_ExistingPlanIsNotDerivedAgain ==
    [][\A n \in InboxNames :
          PlanWrittenNow(n) =>
              /\ EntriesFor(registryFile, n) = 0
              /\ PlanName(n) \notin DOMAIN needsAction]_vars

\* C20: after a pass of task_planner.main in which processing a file failed,
\* that file is marked seen: once a pass has gone through an Inbox that has
\* not changed since, the Registry lists every .md file of the Inbox, so no
\* later pass attempts one of them again.
C20_FailedFileIsMarkedSeen ==
    planner[Main].cleanRuns >= 1 =>
        \A n \in MdFiles(inbox) : EntriesFor(registryFile, n) >= 1

\* ======================================================================
\* Further claims about the Scheduler, the folders and the lock
\* ======================================================================

\* the files execute_next_task has moved so far
DispatchedFiles == {dispatched[i].file : i \in 1..Len(dispatched)}

\* C21: across the scheduler's passes, schedule_tasks never puts into the
\* queue a record that this scheduler has already dispatched (and so no
\* record is dispatched a second time).
C21_DispatchedRecordNotEnqueuedAgain ==
    [][/\ \A e \in task_queue' :
              e.timestamp > stamp => e.task.filename \notin DispatchedFiles
       /\ Len(dispatched') > Len(dispatched)
              => dispatched'[Len(dispatched')].file \notin DispatchedFiles]_vars

\* C22: a move of a record into a folder that already holds a file of that
\* name fails: the file in the target folder stays as it is and the source
\* file is not removed.  Checked on the executor's move_to_done.
C22_MoveOntoExistingNameFails ==
    [][\A n \in ActionNames :
          (n \in DOMAIN done /\ ExecutedNow(n) /\ lastExec'.move # "none") =>
              /\ n \in DOMAIN done' /\ done'[n] = done[n]
              /\ n \in DOMAIN actions => n \in DOMAIN actions'
              /\ n \in DOMAIN needsApproval => n \in DOMAIN needsApproval']_vars

\* the lock file names a process that is there
LockHolderAlive ==
    /\ lockFile.exists
    /\ lockFile.pid \in Instances
    /\ inst[lockFile.pid].pc \notin {"off", "gone", "killed"}

\* this step is a step of create_lock_file, run_once or run_daemon in
\* instance i (not its being killed)
Stepped(i) == inst'[i].pc # inst[i].pc /\ inst'[i].pc # "killed"

\* C23: on start, an instance that reads a lock file naming a process that is
\* no longer running removes that lock and writes its own, and then holds the
\* lock; an instance that reads a lock file naming a running process leaves
\* the lock file as it is, returns False and never runs a processing cycle.
C23_StaleLockReplacedLiveLockHonoured ==
    [][\A i \in Instances :
          /\ (At(i, "read") /\ Stepped(i) /\ lockFile.exists) =>
                IF LockHolderAlive
                THEN inst'[i].pc = "gone" /\ lockFile' = lockFile
                ELSE inst'[i].pc = "remove" /\ lockFile' = lockFile
          /\ (At(i, "remove") /\ Stepped(i) /\ lockFile.exists) =>
                lockFile' = NoLock /\ inst'[i].pc = "write"
          /\ (At(i, "write") /\ Stepped(i)) =>
                lockFile' = [exists |-> TRUE, pid |-> i] /\ inst'[i].pc = "locked"
          /\ At(i, "gone") => inst'[i].pc = "gone"]_vars

\* an instance has found the lock of a killed process stale, and another has
\* returned False in front of the lock of a running one
C23_Witness ==
    \E i, j, k \in Instances :
        /\ inst[i].pc = "remove"
        /\ lockFile.exists /\ lockFile.pid = j /\ inst[j].pc = "killed"
        /\ inst[k].pc = "gone"

\* C24: in daemon mode, once shutdown_requested is set, the process_cycle
\* under way runs to its end, no further cycle is started, the lock file is
\* removed and the daemon terminates; and an instance that has acquired the
\* lock leaves only through the finally block that removes the lock file.
C24_ShutdownFinishesCycleRemovesLock ==
    /\ [][\A i \in Instances :
            /\ (inst[i].mode = "daemon" /\ inst[i].shutdown /\ At(i, "locked"))
                   => inst'[i].pc # "cycle"
            /\ (At(i, "cycle") /\ Stepped(i))
                   => inst'[i].pc = (IF inst[i].mode = "daemon" THEN "locked" ELSE "finally")
            /\ (i \in PastLock /\ inst'[i].pc = "gone")
                   => At(i, "finally") /\ lockFile' = NoLock]_vars
    /\ \A i \in Instances :
          (inst[i].mode = "daemon" /\ inst[i].shutdown /\ i \in PastLock)
              ~> (inst[i].pc \in {"gone", "killed"})

\* a daemon that was signalled has left, and no lock file is there
C24_Witness ==
    \E i \in Instances :
        /\ inst[i].mode = "daemon" /\ inst[i].shutdown /\ inst[i].pc = "gone"
        /\ lockFile = NoLock
        /\ \A j \in Instances \ {i} : inst[j].pc = "off"

\* C25: when a shutdown has been requested while wait_for_approval is polling
\* a request that is not decided, the next poll of the loop ends the wait:
\* it does not go back to sleep to wait for a decision or for the timeout.
C25_WaitEndsAtNextPollAfterShutdown ==
    [][(gate.pc = "polling" /\ gate.shutdown /\ gate' # gate)
           => gate'.pc # "polling"]_vars

\* an approved record of Needs_Approval, which the second loop executes
ApprovedWaiting(n) ==
    /\ n \in DOMAIN needsApproval
    /\ parse_action_file(needsApproval[n]).ok
    /\ is_approved(parse_action_file(needsApproval[n]).metadata)

\* C26: within one run of process_all_actions every approved record of
\* Needs_Approval is attempted, whatever happens while another record of the
\* run is processed: the run does not end while an approved record that it
\* listed is still to be visited.
C26_RunAttemptsEveryApprovedRecord ==
    [][(run.pc = "approval" /\ run'.pc = "idle") =>
           \A k \in 2..Len(run.todo) : ~ApprovedWaiting(run.todo[k])]_vars

\* C27: with dry_run set, a step of the executor leaves Actions,
\* Needs_Approval and Done as they are and invokes no external executor.
C27_DryRunChangesAndSendsNothing ==
    [][(dry_run /\ run' # run) =>
          /\ actions' = actions /\ needsApproval' = needsApproval /\ done' = done
          /\ \A i \in 1..Len(lastExec'.results) : ~lastExec'.results[i].sent]_vars

\* a dry run has executed a record with success and the record is where it was
C27_Witness ==
    /\ dry_run
    /\ lastExec.how = "success" /\ lastExec.attempts = 1
    /\ lastExec.file \in DOMAIN actions
    /\ lastExec.file \notin DOMAIN done

TerminalStatuses == {"completed", "failed", "rejected", "timeout"}

\* C28: the header status of a record agrees with its folder: a record the
\* executor moves into Needs_Approval has status awaiting_approval, and a
\* record it writes into Done has a terminal status.
C28_StatusAgreesWithFolder ==
    [][/\ \A n \in DOMAIN needsApproval' \ DOMAIN needsApproval :
             /\ HasKey(needsApproval'[n].hdr, "status")
             /\ Get(needsApproval'[n].hdr, "status", "pending") = "awaiting_approval"
       /\ \A n \in DOMAIN done' :
             (n \notin DOMAIN done \/ done'[n] # done[n]) =>
                 /\ HasKey(done'[n].hdr, "status")
                 /\ Get(done'[n].hdr, "status", "pending") \in TerminalStatuses]_vars

\* C29: the derived file name is collision-safe: two different source files
\* never yield the same derived name in Needs_Action.
C29_DistinctSourcesDistinctDerivedNames ==
    \A d1, d2 \in derivedNames :
        (d1.name = d2.name /\ d1.source # d2.source)
            => sources[d1.source] = sources[d2.source]

\* C30: the Registry is append-only: whatever ingestion runs do, every entry
\* of the persisted Registry stays where it is, unchanged, and the file
\* changes only by entries being added at its end.
C30_RegistryIsAppendOnly ==
    [][/\ Len(registryFile.entries) <= Len(registryFile'.entries)
       /\ \A i \in 1..Len(registryFile.entries) :
             registryFile'.entries[i] = registryFile.entries[i]]_vars

\* Further claims about the Approval Gate, the Registry and the executor's runs

\* C31: every approval request gets an id of its own: create_approval_request
\* never returns the id of a request whose file is in Needs_Approval or in
\* Done, so it never writes over the file of an existing request.
C31_RequestIdIsFresh ==
    [][gate'.calls > gate.calls =>
          RequestFile(gate'.request_id) \notin DOMAIN needsApproval \cup DOMAIN done]_vars

\* C32: loading a Registry kept in the legacy flat-list form gives a Registry
\* in which exactly the legacy file names are marked processed, the migrated
\* form is what the file holds afterwards, and a second load returns the same
\* Registry and leaves the file as it is.
C32_LegacyMigrationTransparentIdempotent ==
    [][(registryFile.form = "legacy" /\ planner[Main].pc = "idle"
            /\ planner'[Main].pc = "loop") =>
          /\ \A n \in InboxNames :
                is_file_processed(n, planner'[Main].registry)
                    <=> \E i \in 1..Len(registryFile.entries) :
                            registryFile.entries[i].filename = n
          /\ Len(planner'[Main].registry) = Len(registryFile.entries)
          /\ registryFile' = [form |-> "current", entries |-> planner'[Main].registry]
          /\ load_processed_registry'.registry = planner'[Main].registry
          /\ load_processed_registry'.file = registryFile']_vars

\* a run has loaded a legacy list of two names and goes through the Inbox
C32_Witness ==
    /\ planner[Main].pc = "loop"
    /\ Len(planner[Main].registry) = 2
    /\ \A i \in 1..2 : planner[Main].registry[i].processed_at = "unknown (migrated)"
    /\ registryFile = [form |-> "current", entries |-> planner[Main].registry]

\* what a run of the executor was: all actions succeeded, some failed, or a
\* fatal error ended it before any work was done
RunOutcome(r) ==
    IF r.raised = "Exception" /\ r.processed = 0 /\ r.failed = 0 THEN "fatal"
    ELSE IF r.raised # "none" THEN "other"
    ELSE IF r.failed = 0 THEN "all_succeeded"
    ELSE "some_failed"

\* C33: the exit status of the executor tells the three outcomes of a run
\* apart: two runs of which one succeeded in all actions, one had failures
\* or one ended in a fatal error before any work never have the same status.
C33_ExitStatusTellsOutcomesApart ==
    \A x, y \in exited :
        (/\ RunOutcome(runResults[x.run]) # "other"
         /\ RunOutcome(runResults[y.run]) # "other"
         /\ RunOutcome(runResults[x.run]) # RunOutcome(runResults[y.run]))
            => x.code # y.code

\* C34: across the cycles of run_scheduler the queue never holds two entries
\* for one record file and never holds an entry for a file that has left
\* Needs_Action, so that no record is popped by execute_next_task twice.
C34_QueueHoldsEachRecordOnce ==
    /\ \A a, b \in task_queue : a.task.filename = b.task.filename => a = b
    /\ \A a \in task_queue : a.task.filename \in DOMAIN needsAction

\* C35: the external effect of an action happens at most once: once a
\* capability call has succeeded for a record, the record is in neither
\* Actions nor Needs_Approval any more, whatever becomes of the write of the
\* Done copy and of the removal of the source, so that no later run executes
\* it again.
C35_SucceededRecordLeavesTheInputFolders ==
    [][\A n \in ActionNames :
          (/\ ExecutedNow(n)
           /\ \E i \in 1..Len(lastExec'.results) :
                 lastExec'.results[i].success /\ lastExec'.results[i].sent)
              => n \notin DOMAIN actions' \cup DOMAIN needsApproval']_vars

\* C36: wait_for_approval returns False only when it has read a REJECTED
\* decision from the request file; every other way of not being approved is
\* signalled differently.
C36_FalseOnlyOnRejection ==
    (gate.pc = "returned" /\ gate.result = "False") => gate.read = "REJECTED"

\* C37: a request file that no human has edited is read as PENDING by
\* check_approval_status, whatever text the requester passed to
\* create_approval_request.
C37_UneditedRequestReadsPending ==
    \A f \in DOMAIN needsApproval :
        needsApproval[f].slot = "" => ContentStatus(needsApproval[f]) = "PENDING"

\* C38: when a human has written APPROVED or REJECTED into the request file
\* before the timeout had elapsed, wait_for_approval does not end in
\* ApprovalTimeout, whatever the poll interval is.
C38_DecisionBeforeTimeoutIsHonoured ==
    [][(gate.pc = "polling" /\ gate'.pc = "returned"
            /\ GateFile \in DOMAIN needsApproval
            /\ needsApproval[GateFile].edited = "early"
            /\ Upper(needsApproval[GateFile].slot) \in {" APPROVED", " REJECTED"})
          => gate'.result # "ApprovalTimeout"]_vars

\* C39: a record that needs approval does not block the others: as long as
\* run_scheduler makes its cycles, every pending record in Needs_Action is
\* dispatched at some time (it leaves Needs_Action for Needs_Approval or
\* Done), also when records ahead of it went to Needs_Approval.
C39_EveryPendingRecordIsDispatched ==
    \A f \in Range(TaskNames) :
        (/\ f \in DOMAIN needsAction
         /\ parse_task_file(f, needsAction[f]).status = "pending")
            ~> (/\ f \notin DOMAIN needsAction
                /\ f \in DOMAIN needsApproval \cup DOMAIN done)

\* a record has gone to Needs_Approval, and a record of lower priority that
\* was pending beside it has been dispatched after it
C39_Witness ==
    \E i, j \in 1..Len(dispatched) :
        /\ i < j
        /\ dispatched[i].rank = priority_map("high")
        /\ dispatched[i].file \in DOMAIN needsApproval
        /\ dispatched[j].rank > dispatched[i].rank
        /\ dispatched[j].created_at < dispatched[i].created_at
        /\ dispatched[j].file \in DOMAIN done

\* C40: an action record in Needs_Approval whose header a human has changed
\* to approved is executed by the next process_all_actions run and ends in
\* Done with status completed or failed: the run's visit takes it out of
\* Needs_Approval, and the run does not end before it has visited it.
C40_ApprovedRecordEndsInDone ==
    [][/\ (run.pc = "approval" /\ run' # run /\ run.todo # <<>> /\ ~dry_run
              /\ ApprovedWaiting(Head(run.todo))) =>
            LET n == Head(run.todo)
            IN  /\ n \notin DOMAIN needsApproval'
                /\ n \in DOMAIN done'
                /\ HasKey(done'[n].hdr, "status")
                /\ Get(done'[n].hdr, "status", "pending") \in {"completed", "failed"}
       /\ (run.pc = "approval" /\ run'.pc = "idle") =>
            \A k \in 2..Len(run.todo) : ~ApprovedWaiting(run.todo[k])]_vars
====
